---- MODULE Spec2Model ----
(***************************************************************************)
(* Model of nanobot/providers/gemini_cli_auth.py: refresh_access_token     *)
(* (the Orchestrator), discover_project (the Project Resolver) and         *)
(* enable_vertex_api (the API Enabler).  One invocation of                 *)
(* refresh_access_token is one behaviour; every remote request is one      *)
(* step whose response is chosen nondeterministically.                     *)
(***************************************************************************)
EXTENDS Integers, Sequences, FiniteSets, TLC

\* ------------------------------------------------------------------ values
\* Python's None; every optional value of the model is a string or None.
None == "<None>"

\* Python truthiness of an optional string: None and "" are falsy.
Truthy(v) == v # None /\ v # ""

\* Python `a or b` on optional strings.
PyOr(a, b) == IF Truthy(a) THEN a ELSE b

DEFAULT_PROJECT_ID == "rising-fact-p41fc"

\* range(24) of the polling loop.
PollCeiling == 24

\* Longest allowedTiers list a load response carries in the model.
MaxTiers == 2

\* ------------------------------------------------------------ input domains
EnvValues == {None, "", "env-proj"}

Environs == [GOOGLE_CLOUD_PROJECT : EnvValues, GOOGLE_CLOUD_PROJECT_ID : EnvValues]

RefreshTokens == {"", "1//refresh"}

\* Outcome of one HTTP exchange: "timeout" is a transport error or timeout
\* (httpx raises), "s<code>" a response with that status, "s200_badjson" a
\* 200 response whose body resp.json() cannot decode into the expected shape.
TokenFields == {None, "", "ya29.token"}

TokenResponses ==
  {[outcome |-> o, access_token |-> None] : o \in {"timeout", "s401", "s500", "s200_badjson"}}
    \cup {[outcome |-> "s200", access_token |-> a] : a \in TokenFields}

\* cloudaicompanionProject of a load response: absent, a string, or an object
\* whose id is val (None when the object has no id).
ProjectRefs ==
  { [kind |-> "absent", val |-> None],
    [kind |-> "str", val |-> ""],
    [kind |-> "str", val |-> "proj-a"],
    [kind |-> "obj", val |-> "proj-a"],
    [kind |-> "obj", val |-> None] }

Tiers ==
  { [id |-> "free-tier", isDefault |-> TRUE],
    [id |-> "paid-tier", isDefault |-> FALSE],
    [id |-> "paid-tier", isDefault |-> TRUE],
    [id |-> None, isDefault |-> TRUE] }

TierLists == UNION {[1..n -> Tiers] : n \in 0..MaxTiers}

CurrentTiers == {None, "standard-tier"}

LoadBodies == [currentTier : CurrentTiers, cloudaicompanionProject : ProjectRefs,
               allowedTiers : TierLists]

\* data = {} (line 105)
EmptyData == [currentTier |-> None,
              cloudaicompanionProject |-> [kind |-> "absent", val |-> None],
              allowedTiers |-> << >>]

LoadResponses ==
  {[outcome |-> o, body |-> EmptyData] : o \in {"timeout", "s403", "s500", "s200_badjson"}}
    \cup {[outcome |-> "s200", body |-> d] : d \in LoadBodies}

\* response payload of an operation record: absent, null, or an object
\* holding cloudaicompanionProject.id
LROPayloads ==
  { [kind |-> "absent", id |-> None],
    [kind |-> "null", id |-> None],
    [kind |-> "obj", id |-> "proj-b"] }

LROs == [name : {None, "operations/op-1"}, done : BOOLEAN, response : LROPayloads]

NoLRO == [name |-> None, done |-> FALSE, response |-> [kind |-> "absent", id |-> None]]

LROResponses ==
  {[outcome |-> o, body |-> NoLRO] : o \in {"timeout", "s404", "s500", "s200_badjson"}}
    \cup {[outcome |-> "s200", body |-> l] : l \in LROs}

\* responses of the operation-fetch GET
PollResponses ==
  {[outcome |-> o, body |-> NoLRO] : o \in {"timeout", "s500", "s200_badjson"}}
    \cup {[outcome |-> "s200", body |-> l] : l \in LROs}

EnableOutcomes == {"s200_done", "s200_notdone", "s403", "s500", "timeout", "s200_badjson"}

NoBody == [tierId |-> None, cloudaicompanionProject |-> None]

\* no operation-fetch exchange has taken place
NoPoll == [outcome |-> "unsent", body |-> NoLRO]

NoSent == [token |-> 0, load |-> 0, onboard |-> 0, sleep |-> 0, get |-> 0, enable |-> 0]

VARIABLES
  pc,             \* position of the invocation
  refresh_token,  \* argument of refresh_access_token
  environ,        \* os.environ
  token_resp,     \* outcome of the token exchange
  token_field,    \* tokens.get("access_token") of the token response
  access_token,   \* local of refresh_access_token
  project_id,     \* local of refresh_access_token
  result,         \* the returned pair, NoResult until returned
  error,          \* exception raised to the caller of refresh_access_token
  env_project,    \* local of discover_project
  load_resp,      \* outcome of the loadCodeAssist exchange
  data,           \* local of discover_project
  onboard_resp,   \* outcome of the onboardUser exchange
  onboard_body,   \* local of discover_project
  lro,            \* local of discover_project
  round,          \* iterations of the polling loop started so far
  poll_resp,      \* response of the latest operation-fetch exchange
  excIn,          \* stage of discover_project in which an exception was raised
  resolved,       \* return value of discover_project
  enable_resp,    \* outcome of the service-enable exchange
  enable_project, \* project_id argument of the enable_vertex_api call
  sent            \* requests issued and waits taken so far, by kind

inputs == <<refresh_token, environ>>
token == <<token_resp, token_field, access_token>>
frame == <<env_project, load_resp, data, onboard_resp, onboard_body, lro, round,
           poll_resp>>
enable == <<enable_resp, enable_project>>
vars == <<pc, inputs, token, project_id, result, error, frame, excIn, resolved,
          enable, sent>>

Unset == "<unset>"

NoResult == [access_token |-> None, project_id |-> None]

Init ==
  /\ pc = "start"
  /\ refresh_token \in RefreshTokens
  /\ environ \in Environs
  /\ token_resp = "unsent"
  /\ token_field = None
  /\ access_token = None
  /\ project_id = None
  /\ result = NoResult
  /\ error = None
  /\ env_project = None
  /\ load_resp = "unsent"
  /\ data = EmptyData
  /\ onboard_resp = "unsent"
  /\ onboard_body = NoBody
  /\ lro = NoLRO
  /\ round = 0
  /\ poll_resp = NoPoll
  /\ excIn = "none"
  /\ resolved = Unset
  /\ enable_resp = "unsent"
  /\ enable_project = None
  /\ sent = NoSent

\* ----------------------------------------------------------- pure helpers
\* os.environ.get("GOOGLE_CLOUD_PROJECT") or os.environ.get("GOOGLE_CLOUD_PROJECT_ID")
EnvProject(e) == PyOr(e.GOOGLE_CLOUD_PROJECT, e.GOOGLE_CLOUD_PROJECT_ID)

\* `if not refresh_token: raise ValueError`
RefreshTokenOk(rt) == Truthy(rt)

AccessTokenOkAnyField(a) == TRUE

AccessTokenOkNotNone(a) == a # None

\* `if not access_token: raise ValueError`
AccessTokenOk(a) == Truthy(a)

\* Exception raised by httpx.post / raise_for_status / .json() on an outcome
\* of an exchange guarded by raise_for_status(); None when it goes through.
RaisedByExchange(outcome) ==
  CASE outcome = "timeout" -> "TransportError"
    [] outcome = "s200_badjson" -> "JSONDecodeError"
    [] outcome = "s200" -> None
    [] OTHER -> "HTTPStatusError"

RaisedByRequestTimeoutTolerated(outcome) ==
  CASE outcome = "s200_badjson" -> "JSONDecodeError"
    [] OTHER -> None

\* Exception raised by an exchange whose status is only compared with 200.
RaisedByRequest(outcome) ==
  CASE outcome = "timeout" -> "TransportError"
    [] outcome = "s200_badjson" -> "JSONDecodeError"
    [] OTHER -> None

LoadFinalPidNoObject(proj, env) ==
  IF proj.kind = "str" /\ Truthy(proj.val) THEN proj.val
  ELSE IF Truthy(env) THEN env
  ELSE None

LoadFinalPidNoEnv(proj, env) ==
  IF proj.kind = "str" /\ Truthy(proj.val) THEN proj.val
  ELSE IF proj.kind = "obj" /\ Truthy(proj.val) THEN proj.val
  ELSE None

\* final_pid of the `if data.get("currentTier")` block
LoadFinalPid(proj, env) ==
  IF proj.kind = "str" /\ Truthy(proj.val) THEN proj.val
  ELSE IF proj.kind = "obj" /\ Truthy(proj.val) THEN proj.val
  ELSE IF Truthy(env) THEN env
  ELSE None

LegacyTier == [id |-> "legacy-tier", isDefault |-> FALSE]

RECURSIVE FirstDefault(_)
\* next((t for t in allowed if t.get("isDefault")), None) or {"id": "legacy-tier"}
FirstDefault(allowed) ==
  IF allowed = << >> THEN LegacyTier
  ELSE IF Head(allowed).isDefault THEN Head(allowed)
  ELSE FirstDefault(Tail(allowed))

GetDefaultTierFirstInList(allowed) ==
  IF allowed = << >> THEN LegacyTier ELSE Head(allowed)

GetDefaultTier(allowed) == FirstDefault(allowed)

\* tier.get("id") or "free-tier"
TierId(tier) == PyOr(tier.id, "free-tier")

OnboardBodyHintForAnyTier(tier_id, env) ==
  [tierId |-> tier_id, cloudaicompanionProject |-> IF Truthy(env) THEN env ELSE None]

\* onboard_body: tierId, and the project hint for a non-free tier
OnboardBody(tier_id, env) ==
  [tierId |-> tier_id,
   cloudaicompanionProject |-> IF tier_id # "free-tier" /\ Truthy(env) THEN env ELSE None]

LoopContinuesNoCeiling(l, r) == ~l.done /\ Truthy(l.name)

LoopContinuesIgnoreDone(l, r) == r < PollCeiling /\ Truthy(l.name)

\* the polling loop runs another round: range(24), `if done: break`,
\* `if not name: break`
LoopContinues(l, r) == r < PollCeiling /\ ~l.done /\ Truthy(l.name)

PollUpdateAlways(l, r) == r.body

\* `if poll_resp.status_code == 200: lro = poll_resp.json()`
PollUpdate(l, r) == IF r.outcome = "s200" THEN r.body ELSE l

\* lro.get("response", {}).get("cloudaicompanionProject", {}).get("id")
ExtractPid(l) == IF l.response.kind = "obj" THEN l.response.id ELSE None

FinalPidEnvOnly(pid, env) == env

FinalPidNoEnv(pid, env) == pid

\* final_pid = pid or env_project; return final_pid if final_pid else env_project
FinalPid(pid, env) ==
  LET final_pid == PyOr(pid, env) IN IF Truthy(final_pid) THEN final_pid ELSE env

ExceptResultNone(env) == None

\* `return env_project` of the except clause of discover_project
ExceptResult(env) == env

DiscoverCatchesTransportOnly(kind) == kind = "TransportError"

\* `except Exception` of discover_project
DiscoverCatches(kind) == TRUE

EnableCatchesNothing(kind) == FALSE

\* `except Exception` of enable_vertex_api
EnableCatches(kind) == TRUE

ProjectResolvedNotNone(p) == p # None

ProjectResolvedAlways(p) == TRUE

\* `if project_id:` of refresh_access_token
ProjectResolved(p) == Truthy(p)

AfterDiscoverRetry(p) == IF ProjectResolved(p) THEN "enable" ELSE "discover"

\* the branch taken after discover_project returned: enable_vertex_api for a
\* resolved project, the default id and the return otherwise
AfterDiscover(p) == IF ProjectResolved(p) THEN "enable" ELSE "return"

\* ------------------------------------------------ refresh_access_token, head
\* `if not refresh_token: raise ValueError("Refresh token is required")`
CheckRefreshToken ==
  /\ pc = "start"
  /\ IF RefreshTokenOk(refresh_token)
       THEN pc' = "creds" /\ error' = error
       ELSE pc' = "raised" /\ error' = "ValueError"
  /\ UNCHANGED <<inputs, token, project_id, result, frame, excIn, resolved,
                 enable, sent>>

\* extract_antigravity_credentials() decodes two literals and returns them
ExtractCredentials ==
  /\ pc = "creds"
  /\ pc' = "token"
  /\ UNCHANGED <<inputs, token, project_id, result, error, frame, excIn, resolved,
                 enable, sent>>

\* httpx.post(TOKEN_URL), raise_for_status(), tokens.get("access_token")
TokenPost ==
  /\ pc = "token"
  /\ sent' = [sent EXCEPT !.token = @ + 1]
  /\ \E r \in TokenResponses :
       /\ token_resp' = r.outcome
       /\ token_field' = r.access_token
       /\ IF RaisedByExchange(r.outcome) # None
            THEN /\ pc' = "raised"
                 /\ error' = RaisedByExchange(r.outcome)
                 /\ access_token' = access_token
            ELSE IF AccessTokenOk(r.access_token)
              THEN /\ pc' = "discover"
                   /\ error' = error
                   /\ access_token' = r.access_token
              ELSE /\ pc' = "raised"
                   /\ error' = "ValueError"
                   /\ access_token' = r.access_token
  /\ UNCHANGED <<inputs, project_id, result, frame, excIn, resolved, enable>>

\* ------------------------------------------------------------ discover_project
\* An exception raised inside the try block of discover_project
DiscoverRaise(kind, stage) ==
  /\ excIn' = stage
  /\ IF DiscoverCatches(kind)
       THEN pc' = "d_except" /\ error' = error
       ELSE pc' = "raised" /\ error' = kind

\* env_project and the request headers
DiscoverEnter ==
  /\ pc = "discover"
  /\ pc' = "load"
  /\ env_project' = EnvProject(environ)
  /\ UNCHANGED <<inputs, token, project_id, result, error, load_resp, data,
                 onboard_resp, onboard_body, lro, round, poll_resp, excIn, resolved,
                 enable, sent>>

\* 1. loadCodeAssist, and the currentTier block
LoadCodeAssist ==
  /\ pc = "load"
  /\ sent' = [sent EXCEPT !.load = @ + 1]
  /\ \E r \in LoadResponses :
       /\ load_resp' = r.outcome
       /\ IF RaisedByRequest(r.outcome) # None
            THEN /\ DiscoverRaise(RaisedByRequest(r.outcome), "load")
                 /\ UNCHANGED <<data, resolved>>
            ELSE LET d == IF r.outcome = "s200" THEN r.body ELSE EmptyData
                     final_pid == IF Truthy(d.currentTier)
                                    THEN LoadFinalPid(d.cloudaicompanionProject, env_project)
                                    ELSE None
                 IN /\ data' = d
                    /\ IF Truthy(final_pid)
                         THEN resolved' = final_pid /\ pc' = "d_return"
                         ELSE resolved' = resolved /\ pc' = "onboard"
                    /\ UNCHANGED <<excIn, error>>
  /\ UNCHANGED <<inputs, token, project_id, result, env_project, onboard_resp,
                 onboard_body, lro, round, poll_resp, enable>>

\* tier selection, onboard_body, onboardUser, raise_for_status, lro
OnboardUser ==
  /\ pc = "onboard"
  /\ sent' = [sent EXCEPT !.onboard = @ + 1]
  /\ onboard_body' = OnboardBody(TierId(GetDefaultTier(data.allowedTiers)), env_project)
  /\ \E r \in LROResponses :
       /\ onboard_resp' = r.outcome
       /\ IF RaisedByExchange(r.outcome) # None
            THEN /\ DiscoverRaise(RaisedByExchange(r.outcome), "onboard")
                 /\ UNCHANGED lro
            ELSE /\ lro' = r.body
                 /\ pc' = "poll"
                 /\ UNCHANGED <<excIn, error>>
  /\ UNCHANGED <<inputs, token, project_id, result, env_project, load_resp, data,
                 round, poll_resp, resolved, enable>>

\* one iteration of the polling loop: time.sleep(5), httpx.get, lro update
PollRound ==
  /\ pc = "poll"
  /\ LoopContinues(lro, round)
  /\ round' = round + 1
  /\ sent' = [sent EXCEPT !.sleep = @ + 1, !.get = @ + 1]
  /\ \E r \in PollResponses :
       /\ poll_resp' = r
       /\ IF RaisedByRequest(r.outcome) # None
            THEN /\ DiscoverRaise(RaisedByRequest(r.outcome), "poll")
                 /\ UNCHANGED lro
            ELSE /\ lro' = PollUpdate(lro, r)
                 /\ pc' = "poll"
                 /\ UNCHANGED <<excIn, error>>
  /\ UNCHANGED <<inputs, token, project_id, result, env_project, load_resp, data,
                 onboard_resp, onboard_body, resolved, enable>>

\* the loop ends (break or range exhausted); pid, final_pid, return
Extract ==
  /\ pc = "poll"
  /\ ~LoopContinues(lro, round)
  /\ IF lro.response.kind = "null"
       THEN /\ DiscoverRaise("AttributeError", "extract")
            /\ UNCHANGED resolved
       ELSE /\ resolved' = FinalPid(ExtractPid(lro), env_project)
            /\ pc' = "d_return"
            /\ UNCHANGED <<excIn, error>>
  /\ UNCHANGED <<inputs, token, project_id, result, frame, enable, sent>>

\* except Exception as e: return env_project
DiscoverExcept ==
  /\ pc = "d_except"
  /\ resolved' = ExceptResult(env_project)
  /\ pc' = "d_return"
  /\ UNCHANGED <<inputs, token, project_id, result, error, frame, excIn,
                 enable, sent>>

\* ------------------------------------------------ refresh_access_token, tail
\* project_id = discover_project(access_token); `if project_id:` ... else default.
\* The locals of discover_project end with its return.
DiscoverReturn ==
  /\ pc = "d_return"
  /\ project_id' = IF ProjectResolved(resolved) THEN resolved ELSE DEFAULT_PROJECT_ID
  /\ pc' = AfterDiscover(resolved)
  /\ env_project' = None
  /\ load_resp' = "unsent"
  /\ data' = EmptyData
  /\ onboard_resp' = "unsent"
  /\ onboard_body' = NoBody
  /\ lro' = NoLRO
  /\ round' = 0
  /\ poll_resp' = NoPoll
  /\ UNCHANGED <<inputs, token, result, error, excIn, resolved, enable, sent>>

\* enable_vertex_api(project_id, access_token) inside try/except of the caller
EnableVertexApi ==
  /\ pc = "enable"
  /\ sent' = [sent EXCEPT !.enable = @ + 1]
  /\ \E o \in EnableOutcomes :
       /\ enable_resp' = o
       /\ enable_project' = project_id
       /\ IF RaisedByRequest(o) # None /\ ~EnableCatches(RaisedByRequest(o))
            THEN project_id' = DEFAULT_PROJECT_ID
            ELSE project_id' = project_id
  /\ pc' = "return"
  /\ UNCHANGED <<inputs, token, result, error, frame, excIn, resolved>>

\* return access_token, project_id
Return ==
  /\ pc = "return"
  /\ result' = [access_token |-> access_token, project_id |-> project_id]
  /\ pc' = "done"
  /\ UNCHANGED <<inputs, token, project_id, error, frame, excIn, resolved,
                 enable, sent>>

Next ==
  \/ CheckRefreshToken
  \/ ExtractCredentials
  \/ TokenPost
  \/ DiscoverEnter
  \/ LoadCodeAssist
  \/ OnboardUser
  \/ PollRound
  \/ Extract
  \/ DiscoverExcept
  \/ DiscoverReturn
  \/ EnableVertexApi
  \/ Return

Spec == Init /\ [][Next]_vars

\* ------------------------------------------------------------------ claims
\* The explicit project reference of a load body: the non-empty string, or
\* the id of the object; None when the body carries neither.
ExplicitProject(d) ==
  IF d.cloudaicompanionProject.kind \in {"str", "obj"} /\ Truthy(d.cloudaicompanionProject.val)
    THEN d.cloudaicompanionProject.val
    ELSE None

\* C1: whenever refresh_access_token returns a pair, its project_id is a
\* non-empty string, and it is either the id discover_project returned or
\* the fixed default id.
C1_ProjectIdNeverEmpty ==
  pc = "done" =>
    /\ Truthy(result.project_id)
    /\ result.project_id \in {resolved, DEFAULT_PROJECT_ID}

\* C1 witness: the resolver returned the empty string (an empty environment
\* variable after a failed discovery) and the returned pair carries the default.
C1_Witness ==
  /\ pc = "done"
  /\ resolved = ""
  /\ excIn # "none"
  /\ result.project_id = DEFAULT_PROJECT_ID

\* C2: discover_project never raises to its caller: once an exception was
\* raised in LOAD, ONBOARD, POLL or EXTRACT the invocation never ends in an
\* error, the resolver's result is env_project, and the pair that is returned
\* carries the access token, with the default project id when env_project is
\* none.
C2_ResolverNeverRaises ==
  excIn # "none" =>
    /\ pc # "raised"
    /\ error = None
    /\ (pc \in {"d_return", "enable", "return", "done"} => resolved = EnvProject(environ))
    /\ (pc = "done" =>
          /\ result.access_token = token_field
          /\ Truthy(result.access_token)
          /\ (~Truthy(EnvProject(environ)) => result.project_id = DEFAULT_PROJECT_ID))

\* C2 witness: the onboard request failed with an HTTP error status, no
\* environment hint is set, and the pair was returned with the default id.
C2_Witness ==
  /\ pc = "done"
  /\ excIn = "onboard"
  /\ EnvProject(environ) = None
  /\ resolved = None
  /\ result = [access_token |-> "ya29.token", project_id |-> DEFAULT_PROJECT_ID]

\* C3: a token-refresh failure aborts the invocation: with an empty refresh
\* token it fails before any request; after a non-2xx token response or a 2xx
\* one without access_token it fails with an error with exactly one token
\* request and no other request issued and no pair returned; and nothing
\* else makes the invocation fail.
C3_TokenFailureAborts ==
  /\ (~Truthy(refresh_token) /\ pc # "start" =>
        pc = "raised" /\ error # None /\ sent = NoSent /\ result = NoResult)
  /\ (token_resp \in {"s401", "s500"} \/ (token_resp = "s200" /\ ~Truthy(token_field)) =>
        /\ pc = "raised"
        /\ error # None
        /\ sent = [NoSent EXCEPT !.token = 1]
        /\ result = NoResult)
  /\ (pc = "raised" =>
        \/ ~Truthy(refresh_token)
        \/ token_resp \in {"timeout", "s401", "s500", "s200_badjson"}
        \/ (token_resp = "s200" /\ ~Truthy(token_field)))

\* C3 witness: the token endpoint answered 200 without access_token and the
\* call failed.
C3_Witness ==
  /\ pc = "raised"
  /\ token_resp = "s200"
  /\ token_field = None
  /\ error = "ValueError"

\* C4 as stated: a load response with an explicit project reference ends the
\* resolution with that id and without an onboard request, whatever its
\* other fields are.
C4_ExplicitProjectAlwaysWins ==
  load_resp = "s200" /\ ExplicitProject(data) # None =>
    /\ sent.onboard = 0
    /\ (pc = "d_return" => resolved = ExplicitProject(data))

\* C4 amended: a load response that declares a currentTier and carries an
\* explicit project reference ends the resolution with that id and without
\* an onboard request.
C4_ExplicitProjectWithCurrentTier ==
  load_resp = "s200" /\ Truthy(data.currentTier) /\ ExplicitProject(data) # None =>
    /\ pc = "d_return"
    /\ resolved = ExplicitProject(data)
    /\ sent.onboard = 0

\* C4 witness: the project came as an object with an id, next to a
\* currentTier, an environment hint and allowed tiers.
C4_Witness ==
  /\ pc = "d_return"
  /\ load_resp = "s200"
  /\ Truthy(data.currentTier)
  /\ data.cloudaicompanionProject = [kind |-> "obj", val |-> "proj-a"]
  /\ data.allowedTiers # << >>
  /\ env_project = "env-proj"
  /\ resolved = "proj-a"

\* C5 as stated: the tier id of the onboard request is the id of the first
\* tier flagged isDefault; with no tier flagged default, the id of the first
\* tier of the list; with an empty list, a hardcoded fallback id.
C5_TierFallsBackToFirstInList ==
  onboard_resp # "unsent" =>
    LET a == data.allowedTiers
        D == {i \in 1..Len(a) : a[i].isDefault}
        first == CHOOSE i \in D : \A j \in D : i <= j
    IN /\ (D # {} /\ Truthy(a[first].id) => onboard_body.tierId = a[first].id)
       /\ (D = {} /\ a # << >> /\ Truthy(a[1].id) => onboard_body.tierId = a[1].id)
       /\ (a = << >> => onboard_body.tierId \in {"legacy-tier", "free-tier"})

\* C5 amended: the tier id of the onboard request is the id of the first tier
\* flagged isDefault, or free-tier when that tier has no id; when no tier is
\* flagged default, and so also when the list is empty, it is legacy-tier.
\* For [free-tier (default), paid-tier (not default)] it is free-tier.
C5_TierIsFirstDefaultElseLegacy ==
  onboard_resp # "unsent" =>
    LET a == data.allowedTiers
        D == {i \in 1..Len(a) : a[i].isDefault}
        first == CHOOSE i \in D : \A j \in D : i <= j
    IN /\ (D # {} =>
             onboard_body.tierId = IF Truthy(a[first].id) THEN a[first].id ELSE "free-tier")
       /\ (D = {} => onboard_body.tierId = "legacy-tier")
       /\ (a = << [id |-> "free-tier", isDefault |-> TRUE],
                  [id |-> "paid-tier", isDefault |-> FALSE] >>
             => onboard_body.tierId = "free-tier")

\* C5 witness: the onboard request was sent for the allowed tiers
\* [free-tier (default), paid-tier (not default)] with tierId free-tier.
C5_Witness ==
  /\ onboard_resp = "s200"
  /\ sent.onboard = 1
  /\ data.allowedTiers = << [id |-> "free-tier", isDefault |-> TRUE],
                            [id |-> "paid-tier", isDefault |-> FALSE] >>
  /\ onboard_body.tierId = "free-tier"

\* C6: a load response that declares a currentTier and carries no explicit
\* project, with no environment hint set, ends the resolution with result
\* none and without an onboard request.
C6_ProvisionedWithoutProjectReturnsNone ==
  /\ load_resp = "s200"
  /\ Truthy(data.currentTier)
  /\ ExplicitProject(data) = None
  /\ EnvProject(environ) = None
  => /\ sent.onboard = 0
     /\ (pc = "d_return" => resolved = None)

\* C7: a load response that declares a currentTier and carries no explicit
\* project, with a non-empty environment hint, ends the resolution with
\* exactly the hint, with no onboard and no operation-fetch request.
C7_ProvisionedWithoutProjectReturnsEnv ==
  /\ load_resp = "s200"
  /\ Truthy(data.currentTier)
  /\ ExplicitProject(data) = None
  /\ Truthy(EnvProject(environ))
  => /\ pc = "d_return"
     /\ resolved = EnvProject(environ)
     /\ sent.onboard = 0
     /\ sent.get = 0

\* C7 witness: the hint comes from the second environment variable and the
\* load response carries a project object without an id.
C7_Witness ==
  /\ pc = "d_return"
  /\ load_resp = "s200"
  /\ data.currentTier = "standard-tier"
  /\ data.cloudaicompanionProject = [kind |-> "obj", val |-> None]
  /\ environ = [GOOGLE_CLOUD_PROJECT |-> "", GOOGLE_CLOUD_PROJECT_ID |-> "env-proj"]
  /\ resolved = "env-proj"
  /\ sent.onboard = 0

\* C8: when the load-status call fails at the transport or HTTP level
\* (connection error, timeout, non-success status) the resolver's result is
\* env_project and no onboard request is sent.
C8_LoadFailureSkipsOnboard ==
  load_resp \in {"timeout", "s403", "s500"} =>
    /\ sent.onboard = 0
    /\ (pc = "d_return" => resolved = env_project)

\* C9 as stated: when the polling ceiling is reached and no fetched operation
\* reported done, the result is the environment hint (or none), whatever the
\* last LRO state contains.
C9_CeilingFallsBackToEnv ==
  /\ pc = "d_return"
  /\ onboard_resp = "s200"
  /\ round = PollCeiling
  /\ ~lro.done
  /\ excIn \in {"none", "extract"}
  => resolved = env_project

\* C9 amended: when the polling ceiling is reached and no fetched operation
\* reported done, the result is the project id of the last LRO state's
\* response payload when it holds a non-empty one, and the environment hint
\* (or none) otherwise.
C9_CeilingExtractsThenEnv ==
  /\ pc = "d_return"
  /\ onboard_resp = "s200"
  /\ round = PollCeiling
  /\ ~lro.done
  /\ excIn \in {"none", "extract"}
  => resolved = IF lro.response.kind = "obj" /\ Truthy(lro.response.id)
                  THEN lro.response.id
                  ELSE EnvProject(environ)

\* C9 witness: 24 operation fetches, none done, no payload: the hint is returned.
C9_Witness ==
  /\ pc = "d_return"
  /\ onboard_resp = "s200"
  /\ round = PollCeiling
  /\ sent.get = PollCeiling
  /\ ~lro.done
  /\ Truthy(lro.name)
  /\ lro.response.kind = "absent"
  /\ excIn = "none"
  /\ resolved = "env-proj"

\* C10: when discover_project returned a non-empty id, every outcome of the
\* service-enable exchange leaves the invocation without error and with
\* project_id equal to the resolved id, and the returned pair carries it.
C10_EnableKeepsResolvedProject ==
  /\ (enable_resp # "unsent" =>
        /\ pc \in {"return", "done"}
        /\ error = None
        /\ Truthy(resolved)
        /\ project_id = resolved)
  /\ (pc = "done" /\ Truthy(resolved) =>
        /\ enable_resp # "unsent"
        /\ result.project_id = resolved)

\* C10 witness: the service-enable request was denied with 403 and the pair
\* carries the resolved id.
C10_Witness ==
  /\ pc = "done"
  /\ enable_resp = "s403"
  /\ resolved = "proj-b"
  /\ result.project_id = "proj-b"

\* C11: the service-enable request is issued exactly when discover_project
\* returned a non-empty project id, then exactly once and for that id; when
\* the default id is used because nothing was resolved, no service-enable
\* request is issued.
C11_EnableExactlyForResolvedProject ==
  /\ sent.enable <= 1
  /\ (sent.enable = 1 <=> enable_resp # "unsent")
  /\ (sent.enable = 1 => Truthy(resolved) /\ enable_project = resolved)
  /\ (pc \in {"return", "done"} => (sent.enable = 1 <=> Truthy(resolved)))
  /\ (pc \in {"return", "done"} /\ ~Truthy(resolved) =>
        project_id = DEFAULT_PROJECT_ID /\ sent.enable = 0 /\ enable_project = None)

\* C11 witness: one run returned the resolved id after one service-enable
\* request for it.
C11_Witness ==
  /\ pc = "done"
  /\ resolved = "proj-a"
  /\ sent.enable = 1
  /\ enable_project = "proj-a"
  /\ result.project_id = "proj-a"

\* C12: whenever a pair is returned its access_token is non-empty and is the
\* access_token field of the token endpoint's 200 response; from the token
\* exchange on, nothing changes the access token; a success response without
\* the field never yields a pair.
C12_AccessTokenIsTokenField ==
  /\ (pc = "done" =>
        /\ token_resp = "s200"
        /\ Truthy(result.access_token)
        /\ result.access_token = token_field)
  /\ (pc \in {"discover", "load", "onboard", "poll", "d_except", "d_return",
              "enable", "return", "done"} =>
        Truthy(access_token) /\ access_token = token_field)
  /\ (token_resp = "s200" /\ ~Truthy(token_field) => pc = "raised" /\ result = NoResult)

\* C12 witness: the pair was returned after an onboarding with polling and a
\* failed service-enable request, carrying the token endpoint's access_token.
C12_Witness ==
  /\ pc = "done"
  /\ sent.get > 0
  /\ enable_resp = "s500"
  /\ token_field = "ya29.token"
  /\ result.access_token = "ya29.token"

\* C13: every onboard request carries a tier id, and it carries the
\* environment project hint if and only if the tier id is not free-tier and a
\* (non-empty) environment hint exists.
C13_OnboardHintOnlyForNonFreeTier ==
  onboard_resp # "unsent" =>
    /\ Truthy(onboard_body.tierId)
    /\ (onboard_body.cloudaicompanionProject # None
          <=> onboard_body.tierId # "free-tier" /\ Truthy(EnvProject(environ)))
    /\ (onboard_body.cloudaicompanionProject # None
          => onboard_body.cloudaicompanionProject = EnvProject(environ))

\* C13 witness: an onboard request for the free tier that does not carry the
\* hint although the hint is set.
C13_Witness ==
  /\ onboard_resp = "s200"
  /\ onboard_body.tierId = "free-tier"
  /\ onboard_body.cloudaicompanionProject = None
  /\ EnvProject(environ) = "env-proj"

\* C14: at most 24 operation-fetch requests are issued in one resolution,
\* whatever the responses are, and at the ceiling the loop is left without
\* error and the extraction step follows (a 24th fetch that was answered
\* leaves no error behind).
C14_PollBoundedByCeiling ==
  /\ sent.get <= 24
  /\ (pc = "poll" => sent.get = round)
  /\ (pc = "poll" /\ sent.get = 24 => ENABLED Extract /\ ~ENABLED PollRound)
  /\ (pc = "d_return" /\ sent.get = 24 /\ poll_resp.outcome \in {"s500", "s200"} =>
        error = None /\ excIn \in {"none", "extract"} /\ resolved # Unset)

\* C14 witness: 24 fetches, the last one answered with a non-200 status, the
\* operation never done, and the resolver returned without error.
C14_Witness ==
  /\ pc = "d_return"
  /\ sent.get = 24
  /\ poll_resp.outcome = "s500"
  /\ ~lro.done
  /\ Truthy(lro.name)
  /\ excIn = "none"
  /\ error = None

\* C15: an operation fetch is issued only while the current LRO state is not
\* done and has a non-empty name, and each fetch comes with exactly one wait
\* before it: waits and fetches only happen together, one of each per round.
C15_FetchOnlyWhileUndoneAfterWait ==
  /\ [](sent.sleep = sent.get)
  /\ [][sent'.get # sent.get \/ sent'.sleep # sent.sleep =>
          /\ pc = "poll"
          /\ ~lro.done
          /\ Truthy(lro.name)
          /\ sent'.get = sent.get + 1
          /\ sent'.sleep = sent.sleep + 1]_vars

\* C15 witness: the third fetch reported done and the resolver returned after
\* three waits and three fetches.
C15_Witness ==
  /\ pc = "d_return"
  /\ poll_resp.outcome = "s200"
  /\ poll_resp.body.done
  /\ lro.done
  /\ sent.get = 3
  /\ sent.sleep = 3

\* C16: a poll round answered with a non-200 status keeps the LRO state and
\* stays in the loop, so that the next round fetches the same operation name;
\* a round answered with 200 replaces the LRO state with the response.
C16_FailedPollKeepsLro ==
  [][sent'.get = sent.get + 1 =>
       /\ (poll_resp'.outcome = "s500" =>
             /\ lro' = lro
             /\ pc' = "poll"
             /\ excIn' = "none"
             /\ ~lro'.done
             /\ lro'.name = lro.name
             /\ Truthy(lro'.name))
       /\ (poll_resp'.outcome = "s200" =>
             /\ lro' = poll_resp'.body
             /\ pc' = "poll")]_vars

\* C16 witness: a second round answered 500 left an undone LRO state with a
\* payload in place.
C16_Witness ==
  /\ pc = "poll"
  /\ round = 2
  /\ poll_resp.outcome = "s500"
  /\ ~lro.done
  /\ lro.name = "operations/op-1"
  /\ lro.response.kind = "obj"

\* C17: after the polling loop ended, however it ended, the resolver's result
\* is the project id of the final LRO state's response payload when it holds
\* one, and env_project otherwise.
C17_ExtractPayloadElseEnv ==
  /\ (pc = "d_return" /\ onboard_resp = "s200" /\ excIn = "none" =>
        resolved = IF lro.response.kind = "obj" /\ Truthy(lro.response.id)
                     THEN lro.response.id
                     ELSE EnvProject(environ))
  /\ (pc = "d_return" /\ excIn = "extract" =>
        lro.response.kind # "obj" /\ resolved = EnvProject(environ))

\* C17 witness: the operation completed after some fetches with a project id
\* in its payload, and that id, not the environment hint, is the result.
C17_Witness ==
  /\ pc = "d_return"
  /\ excIn = "none"
  /\ sent.get > 0
  /\ round < PollCeiling
  /\ lro.done
  /\ lro.response = [kind |-> "obj", id |-> "proj-b"]
  /\ env_project = "env-proj"
  /\ resolved = "proj-b"

\* C18: with a non-empty environment hint every result of discover_project
\* is a non-empty project id, so the default project id ends up as the final
\* project only when no environment hint is set.
C18_DefaultOnlyWithoutEnvHint ==
  /\ (Truthy(EnvProject(environ)) /\ resolved # Unset => Truthy(resolved))
  /\ (pc \in {"return", "done"} /\ project_id = DEFAULT_PROJECT_ID =>
        ~Truthy(EnvProject(environ)))

\* C18 witness: a poll request failed with a transport error while the hint
\* was set, and the returned pair carries the hint.
C18_Witness ==
  /\ pc = "done"
  /\ excIn = "poll"
  /\ EnvProject(environ) = "env-proj"
  /\ resolved = "env-proj"
  /\ result.project_id = "env-proj"

\* C19: the requests of one invocation come in a fixed order, each stage at
\* most once: the token request first, then the load-status request, then at
\* most one onboard request, then operation fetches (only after a successful
\* onboard response), then at most one service-enable request, after which no
\* load-status, onboard or fetch request follows.
C19_RequestsInFixedOrder ==
  [][/\ (sent'.token # sent.token => sent = NoSent /\ sent'.token = 1)
     /\ (sent'.load # sent.load =>
           sent = [NoSent EXCEPT !.token = 1] /\ sent'.load = 1)
     /\ (sent'.onboard # sent.onboard =>
           /\ sent.token = 1 /\ sent.load = 1 /\ sent.onboard = 0
           /\ sent.get = 0 /\ sent.enable = 0
           /\ sent'.onboard = 1)
     /\ (sent'.get # sent.get =>
           /\ sent.onboard = 1 /\ onboard_resp = "s200"
           /\ sent.enable = 0)
     /\ (sent'.enable # sent.enable =>
           /\ sent.token = 1 /\ sent.load = 1 /\ sent.enable = 0
           /\ sent'.enable = 1)]_vars

\* C19 witness: one run issued the token, load, onboard, two fetch and the
\* service-enable requests and returned.
C19_Witness ==
  /\ pc = "done"
  /\ sent = [token |-> 1, load |-> 1, onboard |-> 1, sleep |-> 2, get |-> 2, enable |-> 1]

\* C20: an operation fetch that fails with a transport error or timeout ends
\* the polling loop at once: the resolver leaves the loop for good and returns
\* env_project, whatever rounds remain and whatever the LRO state holds.
C20_PollTransportErrorEndsLoop ==
  /\ (poll_resp.outcome = "timeout" =>
        /\ pc \in {"d_except", "d_return"}
        /\ excIn = "poll"
        /\ sent.get = round
        /\ (pc = "d_return" => resolved = env_project))
  /\ (excIn = "poll" =>
        /\ pc \in {"d_except", "d_return", "enable", "return", "done"}
        /\ resolved \in {Unset, EnvProject(environ)})

\* C20 witness: the first fetch timed out while the LRO state held a project
\* id and no hint was set; the resolver returned none after one fetch.
C20_Witness ==
  /\ pc = "d_return"
  /\ poll_resp.outcome = "timeout"
  /\ round = 1
  /\ sent.get = 1
  /\ lro.response = [kind |-> "obj", id |-> "proj-b"]
  /\ env_project = None
  /\ resolved = None

====
